---- MODULE Spec2Model ----
(***************************************************************************)
(* Model of belts/main.py: MaxFlowSolver (Dinic on an insertion-ordered   *)
(* dict-of-dict residual graph) and solve_belts (node splitting, lower-   *)
(* bound reduction, lower-bound feasibility phase, main flow phase,       *)
(* reconstruction and infeasibility certificate).                         *)
(*                                                                         *)
(* Numbers are the integers of the JSON input plus the three float        *)
(* specials the code can produce (inf, -inf, nan).  On integers           *)
(* "x > TOL" is x > 0, "x < TOL" is x <= 0, "abs(x - y) > TOL" is x # y   *)
(* and round(x, 2) returns x.                                              *)
(***************************************************************************)
EXTENDS Integers, Sequences, FiniteSets, TLC

-----------------------------------------------------------------------------
(* Bounds of the generated inputs *)

MaxLo == 1
MaxHi == 2
MaxCap == 2
MaxSupply == 2

-----------------------------------------------------------------------------
(* Float values: float('inf') and what arithmetic on it yields *)

Inf == 1000000
NegInf == 0 - Inf
NaN == 0 - (2 * Inf)

\* a + b
FAdd(a, b) ==
    IF a = NaN \/ b = NaN THEN NaN
    ELSE IF (a = Inf /\ b = NegInf) \/ (a = NegInf /\ b = Inf) THEN NaN
    ELSE IF a = Inf \/ b = Inf THEN Inf
    ELSE IF a = NegInf \/ b = NegInf THEN NegInf
    ELSE a + b

\* a - b
FSub(a, b) ==
    IF a = NaN \/ b = NaN THEN NaN
    ELSE IF (a = Inf /\ b = Inf) \/ (a = NegInf /\ b = NegInf) THEN NaN
    ELSE IF a = Inf \/ b = NegInf THEN Inf
    ELSE IF a = NegInf \/ b = Inf THEN NegInf
    ELSE a - b

\* x > TOL
GtTOL(x) == x # NaN /\ x > 0

\* x < TOL
LtTOL(x) == x # NaN /\ x <= 0

\* x < -TOL
LtNegTOL(x) == x # NaN /\ x < 0

\* x - y > TOL: the difference without its abs()
DiffersTOL_Signed(x, y) == LET d == FSub(x, y) IN d # NaN /\ d > 0

\* abs(x - y) > TOL
DiffersTOL(x, y) == LET d == FSub(x, y) IN d # NaN /\ d # 0

\* x >= y - TOL
GeMinusTOL(x, y) == x # NaN /\ y # NaN /\ x >= y

\* the flow limit passed down without the edge's residual
FMin_Unbounded(a, b) == a

\* min(a, b) as Python evaluates it: b if b < a else a
FMin(a, b) == IF a # NaN /\ b # NaN /\ b < a THEN b ELSE a

\* max(0, x) as Python evaluates it: x if x > 0 else 0
FMax0(x) == IF x # NaN /\ x > 0 THEN x ELSE 0

-----------------------------------------------------------------------------
(* Names *)

super_source == "__super_source__"
super_sink == "__super_sink__"
virtual_source == "__virtual_source__"

NodeIn(node) == node \o "_in"
NodeOut(node) == node \o "_out"

\* Python's string order on the names used by the inputs
SortedNames ==
    << "__super_sink__", "__super_source__", "__virtual_source__",
       "a", "a_in", "a_out", "b", "b_in", "b_out", "s1", "sink" >>

NameRank(n) == CHOOSE i \in 1..Len(SortedNames) : SortedNames[i] = n

Range(s) == {s[i] : i \in 1..Len(s)}

Vertices == Range(SortedNames)

-----------------------------------------------------------------------------
(* MaxFlowSolver.graph: defaultdict(lambda: defaultdict(float)).           *)
(* g[u] is the insertion-ordered dict graph[u]: a sequence of entries      *)
(* [v |-> key, c |-> residual].                                            *)

EmptyGraph == [u \in Vertices |-> << >>]

Keys(g, u) == [i \in 1..Len(g[u]) |-> g[u][i].v]

HasKey(g, u, v) == \E i \in 1..Len(g[u]) : g[u][i].v = v

KeyIndex(g, u, v) == CHOOSE i \in 1..Len(g[u]) : g[u][i].v = v

\* graph[u].get(v, 0), and graph[u][v] read on the defaultdict
Get(g, u, v) == IF HasKey(g, u, v) THEN g[u][KeyIndex(g, u, v)].c ELSE 0

\* graph[u][v] += x
AddTo(g, u, v, x) ==
    IF HasKey(g, u, v)
    THEN [g EXCEPT ![u][KeyIndex(g, u, v)].c = FAdd(@, x)]
    ELSE [g EXCEPT ![u] = Append(@, [v |-> v, c |-> FAdd(0, x)])]

\* graph[u][v] -= x
SubFrom(g, u, v, x) ==
    IF HasKey(g, u, v)
    THEN [g EXCEPT ![u][KeyIndex(g, u, v)].c = FSub(@, x)]
    ELSE [g EXCEPT ![u] = Append(@, [v |-> v, c |-> FSub(0, x)])]

add_edge(g, u, v, capacity) ==
    IF GtTOL(capacity) THEN AddTo(g, u, v, capacity) ELSE g

-----------------------------------------------------------------------------
(* MaxFlowSolver.bfs *)

RECURSIVE BfsScan_AnyEntry(_, _, _, _, _)
\* the scan without "self.graph[u][v] > TOL"
BfsScan_AnyEntry(g, u, i, level, queue) ==
    IF i > Len(g[u]) THEN [level |-> level, queue |-> queue]
    ELSE LET v == g[u][i].v
         IN IF v \notin DOMAIN level
            THEN BfsScan_AnyEntry(g, u, i + 1, level @@ (v :> level[u] + 1), Append(queue, v))
            ELSE BfsScan_AnyEntry(g, u, i + 1, level, queue)

RECURSIVE BfsScan(_, _, _, _, _)
\* for v in self.graph[u]: from the i-th key on
BfsScan(g, u, i, level, queue) ==
    IF i > Len(g[u]) THEN [level |-> level, queue |-> queue]
    ELSE LET v == g[u][i].v
         IN IF v \notin DOMAIN level /\ GtTOL(g[u][i].c)
            THEN BfsScan(g, u, i + 1, level @@ (v :> level[u] + 1), Append(queue, v))
            ELSE BfsScan(g, u, i + 1, level, queue)

RECURSIVE BfsLoop(_, _, _)
\* while queue:
BfsLoop(g, level, queue) ==
    IF queue = << >> THEN level
    ELSE LET r == BfsScan(g, Head(queue), 1, level, Tail(queue))
         IN BfsLoop(g, r.level, r.queue)

bfs(g, source, sink) == BfsLoop(g, (source :> 0), << source >>)

(* MaxFlowSolver.get_reachable *)

RECURSIVE ReachScan(_, _, _, _, _)
ReachScan(g, u, i, reachable, queue) ==
    IF i > Len(g[u]) THEN [reachable |-> reachable, queue |-> queue]
    ELSE LET v == g[u][i].v
         IN IF v \notin reachable /\ GtTOL(g[u][i].c)
            THEN ReachScan(g, u, i + 1, reachable \cup {v}, Append(queue, v))
            ELSE ReachScan(g, u, i + 1, reachable, queue)

RECURSIVE ReachLoop(_, _, _)
ReachLoop(g, reachable, queue) ==
    IF queue = << >> THEN reachable
    ELSE LET r == ReachScan(g, Head(queue), 1, reachable, Tail(queue))
         IN ReachLoop(g, r.reachable, r.queue)

get_reachable(g, source) == ReachLoop(g, {source}, << source >>)

(* MaxFlowSolver.dfs: one call from u with the flow limit `flow`; returns   *)
(* the amount pushed and the graph and cursors as the call leaves them.     *)

\* level.get(v, -1)
LevelGet(level, v) == IF v \in DOMAIN level THEN level[v] ELSE 0 - 1

\* the push without "self.graph[v][u] += pushed"
Push_ForwardOnly(g, u, v, pushed) == SubFrom(g, u, v, pushed)

\* self.graph[u][v] -= pushed; self.graph[v][u] += pushed
Push(g, u, v, pushed) == AddTo(SubFrom(g, u, v, pushed), v, u, pushed)

\* the test that also wants more than one unit of residual
Admissible_MoreThanOne(g, level, u, v) ==
    LevelGet(level, v) = level[u] + 1 /\ GtTOL(FSub(Get(g, u, v), 1))

\* level.get(v, -1) == level[u] + 1 and self.graph[u][v] > TOL
Admissible(g, level, u, v) ==
    LevelGet(level, v) = level[u] + 1 /\ GtTOL(Get(g, u, v))

RECURSIVE dfs(_, _, _, _, _, _)
RECURSIVE DfsWhile(_, _, _, _, _, _, _)

dfs(g, u, sink, flow, level, iter_pos) ==
    IF u = sink THEN [pushed |-> flow, g |-> g, iter_pos |-> iter_pos]
    ELSE DfsWhile(g, u, sink, flow, level,
                  IF u \in DOMAIN iter_pos THEN iter_pos ELSE iter_pos @@ (u :> 0),
                  Keys(g, u))

\* while iter_pos[u] < len(neighbors):
DfsWhile(g, u, sink, flow, level, iter_pos, neighbors) ==
    IF iter_pos[u] >= Len(neighbors)
    THEN [pushed |-> 0, g |-> g, iter_pos |-> iter_pos]
    ELSE LET v == neighbors[iter_pos[u] + 1]
         IN IF Admissible(g, level, u, v)
            THEN LET r == dfs(g, v, sink, FMin(flow, Get(g, u, v)), level, iter_pos)
                 IN IF GtTOL(r.pushed)
                    THEN [pushed |-> r.pushed,
                          g |-> Push(r.g, u, v, r.pushed),
                          iter_pos |-> r.iter_pos]
                    ELSE DfsWhile(r.g, u, sink, flow, level,
                                  [r.iter_pos EXCEPT ![u] = @ + 1], neighbors)
            ELSE DfsWhile(g, u, sink, flow, level,
                          [iter_pos EXCEPT ![u] = @ + 1], neighbors)

-----------------------------------------------------------------------------
(* solve_belts, steps 1 and 2: the input document `data` and what is built *)
(* from it before any flow is computed.                                    *)

\* edge.get("lo", 0), edge.get("hi", float('inf'))
EdgeLo(edge) == IF "lo" \in DOMAIN edge THEN edge.lo ELSE 0
EdgeHi(edge) == IF "hi" \in DOMAIN edge THEN edge.hi ELSE Inf

\* the keys of data["sources"] (a dict, kept as its items in order)
SourceNames(data) == {data.sources[i].name : i \in 1..Len(data.sources)}

\* node in node_caps and node != sink and node not in sources
IsSplit(data, node) ==
    /\ node \in DOMAIN data.node_caps
    /\ node # data.sink
    /\ node \notin SourceNames(data)

\* the keys of node_split_map
node_split_map(data) == {n \in Range(data.nodes) : IsSplit(data, n)}

all_nodes(data) ==
    (Range(data.nodes) \ node_split_map(data))
        \cup {NodeIn(n) : n \in node_split_map(data)}
        \cup {NodeOut(n) : n \in node_split_map(data)}

map_node(data, node, is_source) ==
    IF node \in node_split_map(data)
    THEN (IF is_source THEN NodeOut(node) ELSE NodeIn(node))
    ELSE node

SplitEdge(data, node) ==
    [from |-> NodeIn(node), to |-> NodeOut(node), lo |-> 0,
     hi |-> data.node_caps[node], is_split_edge |-> TRUE, original_node |-> node]

MappedEdge(data, edge) ==
    [from |-> map_node(data, edge.from, TRUE), to |-> map_node(data, edge.to, FALSE),
     lo |-> EdgeLo(edge), hi |-> EdgeHi(edge), is_split_edge |-> FALSE,
     original_from |-> edge.from, original_to |-> edge.to]

transformed_edges(data) ==
    LET split == SelectSeq(data.nodes, LAMBDA n : IsSplit(data, n))
    IN [i \in 1..Len(split) |-> SplitEdge(data, split[i])]
       \o [i \in 1..Len(data.edges) |-> MappedEdge(data, data.edges[i])]

\* reduced_edges: (u, v, hi - lo) per transformed edge
reduced_edges(data) ==
    LET te == transformed_edges(data)
    IN [i \in 1..Len(te) |-> [u |-> te[i].from, v |-> te[i].to,
                             cap |-> FSub(te[i].hi, te[i].lo)]]

RECURSIVE ImbalanceLoop(_, _, _)
\* for edge in transformed_edges: if lo > TOL: imbalance[u] -= lo; imbalance[v] += lo
ImbalanceLoop(te, i, imb) ==
    IF i > Len(te) THEN imb
    ELSE IF GtTOL(te[i].lo)
         THEN LET imb1 == [imb EXCEPT ![te[i].from] = FSub(@, te[i].lo)]
              IN ImbalanceLoop(te, i + 1, [imb1 EXCEPT ![te[i].to] = FAdd(@, te[i].lo)])
         ELSE ImbalanceLoop(te, i + 1, imb)

\* the balance with the two signs exchanged: u receives lo, v sends it
imbalance_SignsSwapped(data) ==
    LET imb == ImbalanceLoop(transformed_edges(data), 1, [n \in Vertices |-> 0])
    IN [n \in Vertices |-> FSub(0, imb[n])]

imbalance(data) == ImbalanceLoop(transformed_edges(data), 1, [n \in Vertices |-> 0])

-----------------------------------------------------------------------------
(* solve_belts, step 3: the lower-bound feasibility graph *)

\* the orders in which a loop over the Python set S can visit it
SetOrders(S) ==
    {s \in [1..Cardinality(S) -> S] : \A x \in S : \E i \in 1..Cardinality(S) : s[i] = x}

RECURSIVE LbAttach(_, _, _, _, _)
\* for node in all_nodes: the super source / super sink edges and total_demand,
\* visiting the nodes in the order `ord`
LbAttach(imb, ord, i, g, demand) ==
    IF i > Len(ord) THEN [g |-> g, total_demand |-> demand]
    ELSE IF GtTOL(imb[ord[i]])
         THEN LbAttach(imb, ord, i + 1, add_edge(g, super_source, ord[i], imb[ord[i]]),
                       FAdd(demand, imb[ord[i]]))
         ELSE IF LtNegTOL(imb[ord[i]])
              THEN LbAttach(imb, ord, i + 1,
                            add_edge(g, ord[i], super_sink, FSub(0, imb[ord[i]])), demand)
              ELSE LbAttach(imb, ord, i + 1, g, demand)

RECURSIVE AddReduced(_, _, _)
\* for u, v, cap in reduced_edges: if cap > TOL: solver.add_edge(u, v, cap)
AddReduced(re, i, g) ==
    IF i > Len(re) THEN g
    ELSE IF GtTOL(re[i].cap)
         THEN AddReduced(re, i + 1, add_edge(g, re[i].u, re[i].v, re[i].cap))
         ELSE AddReduced(re, i + 1, g)

\* step 3 without "total_demand += imb"
LbGraph_NoDemand(data, ord) ==
    LET a == LbAttach(imbalance(data), ord, 1, EmptyGraph, 0)
    IN [g |-> AddReduced(reduced_edges(data), 1, a.g), total_demand |-> 0]

\* lb_solver and total_demand once step 3 has filled the graph
LbGraph(data, ord) ==
    LET a == LbAttach(imbalance(data), ord, 1, EmptyGraph, 0)
    IN [g |-> AddReduced(reduced_edges(data), 1, a.g), total_demand |-> a.total_demand]

(* solve_belts, step 4: the main graph *)

RECURSIVE AddSources(_, _, _, _)
\* for src, supply in sources.items():
AddSources(data, i, g, total) ==
    IF i > Len(data.sources) THEN [g |-> g, total_supply_amount |-> total]
    ELSE AddSources(data, i + 1,
                    add_edge(g, virtual_source,
                             map_node(data, data.sources[i].name, TRUE),
                             data.sources[i].supply),
                    FAdd(total, data.sources[i].supply))

MainGraph(data) == AddSources(data, 1, AddReduced(reduced_edges(data), 1, EmptyGraph), 0)

total_supply_amount(data) == MainGraph(data).total_supply_amount

sink_node(data) == map_node(data, data.sink, FALSE)

-----------------------------------------------------------------------------
(* The infeasibility certificate *)

\* the original name of a vertex of the transformed graph
OriginalName(data, node) ==
    IF \E orig \in node_split_map(data) : node = NodeIn(orig) \/ node = NodeOut(orig)
    THEN CHOOSE orig \in node_split_map(data) : node = NodeIn(orig) \/ node = NodeOut(orig)
    ELSE node

\* sorted(original_reachable)
cut_reachable(data, reachable) ==
    SelectSeq(SortedNames, LAMBDA n : n \in {OriginalName(data, x) : x \in reachable})

\* u in reachable and v not in reachable, and flow_used >= cap - TOL
IsTight(g, reachable, e) ==
    /\ e.u \in reachable
    /\ e.v \notin reachable
    /\ GeMinusTOL(FSub(e.cap, Get(g, e.u, e.v)), e.cap)

\* the entry appended in the lower-bound phase
LbTightEntry(data, e) == [from |-> e.u, to |-> e.v, flow_needed |-> e.cap]

\* the entry appended in the main phase: orig_u, orig_v
MainTightEntry(data, e) ==
    [from |-> IF \E orig \in node_split_map(data) : e.u = NodeOut(orig)
              THEN OriginalName(data, e.u) ELSE e.u,
     to |-> IF \E orig \in node_split_map(data) : e.v = NodeIn(orig)
            THEN OriginalName(data, e.v) ELSE e.v,
     flow_needed |-> e.cap]

TightLimit == 3

\* s[:3]
FirstThree(s) == SubSeq(s, 1, IF Len(s) < TightLimit THEN Len(s) ELSE TightLimit)

LbTightEdges(data, g, reachable) ==
    LET tight == SelectSeq(reduced_edges(data), LAMBDA e : IsTight(g, reachable, e))
    IN [i \in 1..Len(tight) |-> LbTightEntry(data, tight[i])]

MainTightEdges(data, g, reachable) ==
    LET tight == SelectSeq(reduced_edges(data), LAMBDA e : IsTight(g, reachable, e))
    IN [i \in 1..Len(tight) |-> MainTightEntry(data, tight[i])]

LbInfeasible(data, g, demand, lb_flow) ==
    LET reachable == get_reachable(g, super_source) \ {super_source}
    IN [status |-> "infeasible",
        cut_reachable |-> cut_reachable(data, reachable),
        deficit |-> [demand_balance |-> FSub(demand, lb_flow),
                     tight_nodes |-> << >>,
                     tight_edges |-> FirstThree(LbTightEdges(data, g, reachable))]]

MainInfeasible(data, g, max_flow_value) ==
    LET reachable == get_reachable(g, virtual_source) \ {virtual_source}
    IN [status |-> "infeasible",
        cut_reachable |-> cut_reachable(data, reachable),
        deficit |-> [demand_balance |-> FSub(total_supply_amount(data), max_flow_value),
                     tight_nodes |-> << >>,
                     tight_edges |-> FirstThree(MainTightEdges(data, g, reachable))]]

-----------------------------------------------------------------------------
(* solve_belts, step 5: reconstruction *)

\* original_flow of a transformed edge, from the main solver's residual
original_flow(g, edge) ==
    FAdd(FMax0(FSub(FSub(edge.hi, edge.lo), Get(g, edge.from, edge.to))), edge.lo)

\* the entries appended to flows, in input order; `edge` is the index of the
\* input edge the entry was made for (not part of the output)
FlowEntries(data, g) ==
    LET idx == SelectSeq([i \in 1..Len(data.edges) |-> i],
                         LAMBDA i : GtTOL(original_flow(g, MappedEdge(data, data.edges[i]))))
    IN [k \in 1..Len(idx) |->
          [from |-> data.edges[idx[k]].from, to |-> data.edges[idx[k]].to,
           flow |-> original_flow(g, MappedEdge(data, data.edges[idx[k]])),
           edge |-> idx[k]]]

\* key(x) < key(y) for key = (x["from"], x["to"])
KeyLess(x, y) ==
    \/ NameRank(x.from) < NameRank(y.from)
    \/ (x.from = y.from /\ NameRank(x.to) < NameRank(y.to))

\* flows.sort(key=...): stable
SortFlows(fl) ==
    LET Before(i, j) == KeyLess(fl[i], fl[j]) \/ (~KeyLess(fl[j], fl[i]) /\ i < j)
        Pos(i) == 1 + Cardinality({j \in 1..Len(fl) : Before(j, i)})
    IN [p \in 1..Len(fl) |-> fl[CHOOSE i \in 1..Len(fl) : Pos(i) = p]]

OkResult(data, g, max_flow_value) ==
    [status |-> "ok",
     max_flow_per_min |-> max_flow_value,
     flows |-> SortFlows(FlowEntries(data, g))]

-----------------------------------------------------------------------------
(* Inputs *)

Nodes == << "s1", "a", "b", "sink" >>

Edge(from, to, lo, hi) == [from |-> from, to |-> to, lo |-> lo, hi |-> hi]

\* run_samples.py, belts_feasible_lower_bounds_node_cap
BeltsA ==
    [nodes |-> Nodes,
     edges |-> << Edge("s1", "a", 50, 200), Edge("a", "b", 40, 150), Edge("b", "sink", 0, 120) >>,
     sources |-> << [name |-> "s1", supply |-> 120] >>,
     sink |-> "sink",
     node_caps |-> ("b" :> 120)]

\* run_samples.py, belts_infeasible_cut
BeltsB ==
    [nodes |-> Nodes,
     edges |-> << Edge("s1", "a", 50, 200), Edge("a", "b", 40, 150), Edge("b", "sink", 0, 60) >>,
     sources |-> << [name |-> "s1", supply |-> 120] >>,
     sink |-> "sink",
     node_caps |-> ("b" :> 120)]

\* the single path s1 -> a -> sink with lo 80 on a -> sink and supply 50
BeltsC ==
    [nodes |-> << "s1", "a", "sink" >>,
     edges |-> << [from |-> "s1", to |-> "a"], Edge("a", "sink", 80, 100) >>,
     sources |-> << [name |-> "s1", supply |-> 50] >>,
     sink |-> "sink",
     node_caps |-> << >>]

Samples == {BeltsA, BeltsB, BeltsC}

\* the generated inputs: their edge list, which edges may have lo > 0, the
\* node that is the source, and whether node b may carry a cap
Shapes ==
    { [pairs |-> << <<"a", "b">>, <<"b", "sink">> >>,
       any_lo |-> << TRUE, TRUE >>, src |-> "a", capped |-> TRUE],
      [pairs |-> << <<"a", "sink">>, <<"a", "sink">> >>,
       any_lo |-> << TRUE, TRUE >>, src |-> "a", capped |-> FALSE],
      [pairs |-> << <<"a", "b">>, <<"b", "a">>, <<"b", "sink">> >>,
       any_lo |-> << TRUE, TRUE, FALSE >>, src |-> "a", capped |-> TRUE],
      [pairs |-> << <<"a", "sink">>, <<"a", "b">>, <<"b", "sink">> >>,
       any_lo |-> << FALSE, FALSE, FALSE >>, src |-> "a", capped |-> FALSE],
      [pairs |-> << <<"a", "sink">>, <<"a", "sink">>, <<"a", "sink">>, <<"a", "sink">> >>,
       any_lo |-> << FALSE, FALSE, FALSE, FALSE >>, src |-> "a", capped |-> FALSE] }

\* lo and hi of a generated edge; an edge without "hi" has the default
EdgeAttrs ==
    [lo : 0..MaxLo, hi : 0..MaxHi] \cup [lo : 0..MaxLo]

MkEdge(pair, attrs) ==
    IF "hi" \in DOMAIN attrs
    THEN [from |-> pair[1], to |-> pair[2], lo |-> attrs.lo, hi |-> attrs.hi]
    ELSE [from |-> pair[1], to |-> pair[2], lo |-> attrs.lo]

\* the attributes of the edges of shape sh
AttrChoices(sh) ==
    {at \in [1..Len(sh.pairs) -> EdgeAttrs] :
        \A i \in 1..Len(sh.pairs) : sh.any_lo[i] \/ at[i].lo = 0}

\* a generated input: the edges of shape sh with the attributes at, one
\* source with supply k, and the node caps nc
MkInput(sh, at, k, nc) ==
    [nodes |-> Nodes,
     edges |-> [i \in 1..Len(sh.pairs) |-> MkEdge(sh.pairs[i], at[i])],
     sources |-> << [name |-> sh.src, supply |-> k] >>,
     sink |-> "sink",
     node_caps |-> nc]

\* node_caps of a generated input: none, or a cap on b where the shape uses b
CapChoices(sh) == {<< >>} \cup (IF sh.capped THEN {("b" :> c) : c \in 0..MaxCap} ELSE {})

-----------------------------------------------------------------------------
(***************************************************************************)
(* Model of factory/main.py: build_and_solve.  The two linear programs are *)
(* built as the code builds them; the LP oracle (pywraplp) is modelled by  *)
(* its contract: INFEASIBLE when no point satisfies the constraints,       *)
(* UNBOUNDED when the objective has no bound, otherwise OPTIMAL with any   *)
(* one of the optimal points.                                              *)
(*                                                                         *)
(* The numbers of an input document are integers.  The values of an LP     *)
(* solution are rationals k / Den and are held as the numerator k; so are  *)
(* the numbers of a result document that come from a solution.             *)
(***************************************************************************)

(* Bounds of the generated factory inputs *)
MaxRate == 2
MaxRaw == 2
MaxMachines == 1

\* the plates one circuit takes in the generated inputs
PlatesPerCircuit == {1, 2}

\* A vertex of a program of the inputs below is the solution of equations
\* whose right-hand sides are integers and in which a value gets divided by
\* the plates per circuit or by the productivity multiplier, never by both:
\* its coordinates are whole multiples of 1 / Den.
Den == CHOOSE n \in PlatesPerCircuit : \A m \in PlatesPerCircuit : m <= n

\* a dict of the input: a sequence of entries with the key in "name"
HasEntry(dict, key) == \E i \in 1..Len(dict) : dict[i].name = key
Entry(dict, key) == dict[CHOOSE i \in 1..Len(dict) : dict[i].name = key]
EntryNames(dict) == {dict[i].name : i \in 1..Len(dict)}

\* float(d.get(key, 0))
QtyOf(dict, key) == IF HasEntry(dict, key) THEN Entry(dict, key).qty ELSE 0

RECURSIVE SumFn(_, _)
SumFn(f, S) ==
    IF S = {} THEN 0
    ELSE LET e == CHOOSE e \in S : TRUE IN f[e] + SumFn(f, S \ {e})

RecipeNames(d) == EntryNames(d.recipes)
MachineOf(d, rname) == Entry(d.recipes, rname).machine

\* mod.get("speed", 0.0) and mod.get("prod", 0.0) of modules.get(mname, {})
ModSpeed(d, mname) ==
    IF HasEntry(d.modules, mname) /\ "speed" \in DOMAIN Entry(d.modules, mname)
    THEN Entry(d.modules, mname).speed ELSE 0
ModProd(d, mname) ==
    IF HasEntry(d.modules, mname) /\ "prod" \in DOMAIN Entry(d.modules, mname)
    THEN Entry(d.modules, mname).prod ELSE 0

\* eff[rname] = base_cpm * (1.0 + speed)
eff(d, rname) ==
    Entry(d.machines, MachineOf(d, rname)).crafts_per_min * (1 + ModSpeed(d, MachineOf(d, rname)))

\* prod[rname] = prod_m
prod(d, rname) == ModProd(d, MachineOf(d, rname))

\* every item name, in sorted order
SortedItems ==
    << "copper_ore", "copper_plate", "ghost", "green_circuit", "iron_ore", "iron_plate" >>

\* items: the keys of every recipe's "in" and "out", sorted
RecipeItems(d) ==
    UNION {EntryNames(d.recipes[i].in) \cup EntryNames(d.recipes[i].out) : i \in 1..Len(d.recipes)}
items(d) == SelectSeq(SortedItems, LAMBDA it : it \in RecipeItems(d))

\* coeff = out_qty * mult - in_qty
coeff(d, rname, it) ==
    QtyOf(Entry(d.recipes, rname).out, it) * (1 + prod(d, rname))
        - QtyOf(Entry(d.recipes, rname).in, it)

\* the x terms of the constraint of item it: the coefficient of every recipe
\* (a recipe with coefficient 0 adds nothing to the constraint)
Coeffs(d, it) == [r \in RecipeNames(d) |-> coeff(d, r, it)]

\* the value of the x terms with the coefficients row
RECURSIVE Dot(_, _, _)
Dot(row, x, rs) ==
    IF rs = {} THEN 0
    ELSE LET r == CHOOSE r \in rs : TRUE IN row[r] * x[r] + Dot(row, x, rs \ {r})

Balance(d, it, x) == Dot(Coeffs(d, it), x, RecipeNames(d))

is_raw(d, it) == HasEntry(d.raw_supply_per_min, it)
is_target(d, it) == it = d.target.item
RawCap(d, it) == Entry(d.raw_supply_per_min, it).cap

\* the items that get a consumption variable, in the order of the dict
RawItems(d) == SelectSeq(items(d), LAMBDA it : is_raw(d, it))

\* the recipes of machine mname that the usage sums run over
Runnable(d, mname) == {r \in RecipeNames(d) : MachineOf(d, r) = mname /\ eff(d, r) > 0}
Pinned(d, mname) == {r \in RecipeNames(d) : MachineOf(d, r) = mname /\ eff(d, r) <= 0}

\* usage = sum of x_r / eff_r over the runnable recipes of mname, as the
\* fraction UsageNum / UsageDen (every recipe of a machine has the machine's eff)
UsageNum(d, mname, x) == SumFn(x, Runnable(d, mname))
UsageDen(d, mname) ==
    IF Runnable(d, mname) = {} THEN Den
    ELSE Den * eff(d, CHOOSE r \in Runnable(d, mname) : TRUE)

\* the machine usage constraints: for every machine its un-runnable recipes
\* (x_r == 0), its runnable recipes, and the bound of their sum if it is capped
MachineRows(d) ==
    {[pinned |-> Pinned(d, m),
      runnable |-> Runnable(d, m),
      capped |-> HasEntry(d.max_machines, m),
      limit |-> IF HasEntry(d.max_machines, m)
                THEN Entry(d.max_machines, m).cap * UsageDen(d, m) ELSE 0] :
        m \in EntryNames(d.machines)}

MachineRowHolds(mr, x) ==
    /\ \A r \in mr.pinned : x[r] = 0
    /\ mr.capped => SumFn(x, mr.runnable) <= mr.limit

\* the largest value an x_r can take at a vertex of either program
XBound(d) ==
    LET nums == {d.target.rate_per_min}
                  \cup {d.raw_supply_per_min[i].cap : i \in 1..Len(d.raw_supply_per_min)}
                  \cup {d.max_machines[i].cap * Entry(d.machines, d.max_machines[i].name).crafts_per_min
                            * (1 + ModSpeed(d, d.max_machines[i].name)) :
                        i \in {j \in 1..Len(d.max_machines) : HasEntry(d.machines, d.max_machines[j].name)}}
    IN CHOOSE n \in nums : \A m \in nums : m <= n

XValues(d) == [RecipeNames(d) -> 0..(Den * XBound(d))]

\* The constraints of the items, as the code builds them for one program:
\* rhs[it] is the right-hand side of the constraint of item it, free is the
\* item whose constraint has target_var on its left (or no item).  A raw item
\* has consumption[it] = rhs - balance within 0..cap; the item free has a
\* balance >= 0, which is target_var; every other item has balance = rhs.
ItemRows(d, rhs, free) ==
    {[it |-> it,
      row |-> Coeffs(d, it),
      rhs |-> rhs[it],
      kind |-> IF is_raw(d, it) THEN "raw" ELSE IF it \in free THEN "free" ELSE "fixed",
      cap |-> IF is_raw(d, it) THEN RawCap(d, it) * Den ELSE 0] :
        it \in Range(items(d))}

ItemRowHolds(ir, x) ==
    LET bal == Dot(ir.row, x, DOMAIN x)
    IN CASE ir.kind = "raw" -> bal <= ir.rhs /\ ir.rhs - bal <= ir.cap
         [] ir.kind = "free" -> bal >= 0
         [] OTHER -> bal = ir.rhs

\* the points of a program
Feasible(d, irs) ==
    LET mrs == MachineRows(d)
    IN {x \in XValues(d) :
          /\ \A mr \in mrs : MachineRowHolds(mr, x)
          /\ \A ir \in irs : ItemRowHolds(ir, x)}

\* consumption[it] as the constraint of the raw item it fixes it
ConsumptionOf(irs, x) ==
    LET raws == {ir \in irs : ir.kind = "raw"}
    IN [it \in {ir.it : ir \in raws} |->
           LET ir == CHOOSE r \in raws : r.it = it IN ir.rhs - Dot(ir.row, x, DOMAIN x)]

\* The primary program (target fixed): rhs of the constraint of item it
PrimaryRhs(d) ==
    [it \in Range(items(d)) |-> IF is_target(d, it) THEN d.target.rate_per_min * Den ELSE 0]

PrimaryFeasible(d) ==
    LET irs == ItemRows(d, PrimaryRhs(d), {})
    IN {[x |-> x, consumption |-> ConsumptionOf(irs, x)] : x \in Feasible(d, irs)}

\* objective: sum of x_r / eff_r over the recipes with eff_r > 0, times the
\* product of those eff_r
RECURSIVE EffProduct(_, _)
EffProduct(d, S) ==
    IF S = {} THEN 1
    ELSE LET r == CHOOSE r \in S : TRUE IN eff(d, r) * EffProduct(d, S \ {r})

ObjectiveRow(d) ==
    LET run == {r \in RecipeNames(d) : eff(d, r) > 0}
    IN [r \in RecipeNames(d) |-> IF r \in run THEN EffProduct(d, run \ {r}) ELSE 0]

\* the points of F at which the function value is least
Minimal(F, value) ==
    LET vals == {value[s] : s \in F}
        best == CHOOSE v \in vals : \A w \in vals : v <= w
    IN {s \in F : value[s] = best}

\* the points of F at which the function value is greatest
Maximal(F, value) ==
    LET vals == {value[s] : s \in F}
        best == CHOOSE v \in vals : \A w \in vals : w <= v
    IN {s \in F : value[s] = best}

\* solver.Solve() of the primary program
SolvePrimary(d) ==
    LET F == PrimaryFeasible(d)
        obj == ObjectiveRow(d)
        value == [s \in F |-> Dot(obj, s.x, DOMAIN obj)]
    IN IF F = {} THEN {[status |-> "INFEASIBLE"]}
       ELSE {[status |-> "OPTIMAL", x |-> s.x, consumption |-> s.consumption] :
                s \in Minimal(F, value)}

\* The diagnostic program (target free).  target_var has a coefficient only in
\* the constraint of a target item that is in items and is not raw.
TargetBound(d) == d.target.item \in Range(items(d)) /\ ~is_raw(d, d.target.item)

DiagnosticRhs(d) == [it \in Range(items(d)) |-> 0]

DiagnosticFeasible(d) ==
    LET irs == ItemRows(d, DiagnosticRhs(d), {d.target.item})
    IN {[x |-> x, consumption |-> ConsumptionOf(irs, x),
         target_var |-> IF TargetBound(d) THEN Balance(d, d.target.item, x) ELSE 0] :
            x \in Feasible(d, irs)}

QtyBound(d) ==
    LET qs == UNION {{d.recipes[i].in[j].qty : j \in 1..Len(d.recipes[i].in)}
                       \cup {d.recipes[i].out[j].qty : j \in 1..Len(d.recipes[i].out)} :
                     i \in 1..Len(d.recipes)}
    IN CHOOSE n \in qs : \A m \in qs : m <= n

\* a direction along which the diagnostic program stays feasible and
\* target_var grows
DiagnosticRay(d) ==
    \E dir \in [RecipeNames(d) -> 0..QtyBound(d)] :
        /\ \A m \in EntryNames(d.machines) :
              /\ \A r \in Pinned(d, m) : dir[r] = 0
              /\ HasEntry(d.max_machines, m) => \A r \in Runnable(d, m) : dir[r] = 0
        /\ \A it \in Range(items(d)) :
              IF TargetBound(d) /\ is_target(d, it)
              THEN Balance(d, it, dir) > 0
              ELSE Balance(d, it, dir) = 0

\* solver2.Solve() that stops at the first feasible point it meets
SolveDiagnostic_AnyFeasible(d) ==
    LET F == DiagnosticFeasible(d)
    IN IF F = {} THEN {[status |-> "INFEASIBLE"]}
       ELSE IF ~TargetBound(d) \/ DiagnosticRay(d) THEN {[status |-> "UNBOUNDED"]}
       ELSE {[status |-> "OPTIMAL", x |-> s.x, consumption |-> s.consumption,
              target_var |-> s.target_var] : s \in F}

\* solver2.Solve()
SolveDiagnostic(d) ==
    LET F == DiagnosticFeasible(d)
        value == [s \in F |-> s.target_var]
    IN IF F = {} THEN {[status |-> "INFEASIBLE"]}
       ELSE IF ~TargetBound(d) \/ DiagnosticRay(d) THEN {[status |-> "UNBOUNDED"]}
       ELSE {[status |-> "OPTIMAL", x |-> s.x, consumption |-> s.consumption,
              target_var |-> s.target_var] : s \in Maximal(F, value)}

Solved(lp) == lp.status \in {"OPTIMAL", "FEASIBLE"}

\* math.ceil(usage)
Ceil(num, den) == (num + den - 1) \div den

\* the "ok" document
FactoryOk(d, lp) ==
    [status |-> "ok",
     per_recipe_crafts_per_min |-> lp.x,
     per_machine_counts |->
        [m \in EntryNames(d.machines) |-> Ceil(UsageNum(d, m, lp.x), UsageDen(d, m))],
     raw_consumption_per_min |-> lp.consumption]

\* a machine counted as tight only above its cap
MachineTight_Strict(d, mname, x) ==
    /\ HasEntry(d.max_machines, mname)
    /\ UsageNum(d, mname, x) > Entry(d.max_machines, mname).cap * UsageDen(d, mname)

\* tight: mname + " cap" for every capped machine with usage >= cap - 1e-6
MachineTight(d, mname, x) ==
    /\ HasEntry(d.max_machines, mname)
    /\ UsageNum(d, mname, x) >= Entry(d.max_machines, mname).cap * UsageDen(d, mname)

tight(d, x) ==
    LET ms == SelectSeq(d.machines, LAMBDA m : MachineTight(d, m.name, x))
    IN [i \in 1..Len(ms) |-> ms[i].name \o " cap"]

\* raw_tight: it + " supply" for every consumption variable with val >= cap - 1e-6
raw_tight(d, c) ==
    LET its == SelectSeq(RawItems(d), LAMBDA it : c[it] >= RawCap(d, it) * Den)
    IN [i \in 1..Len(its) |-> its[i] \o " supply"]

\* a document that reports what is missing to the requested rate
FactoryInfeasible_Shortfall(d, lp) ==
    [status |-> "infeasible",
     max_feasible_target_per_min |-> d.target.rate_per_min * Den - lp.target_var,
     bottleneck_hint |-> tight(d, lp.x) \o raw_tight(d, lp.consumption)]

\* the "infeasible" document of a solved diagnostic program
FactoryInfeasible(d, lp) ==
    [status |-> "infeasible",
     max_feasible_target_per_min |-> lp.target_var,
     bottleneck_hint |-> tight(d, lp.x) \o raw_tight(d, lp.consumption)]

\* the "infeasible" document when the diagnostic program is not solved
FactoryUnsatisfiable ==
    [status |-> "infeasible",
     max_feasible_target_per_min |-> 0,
     bottleneck_hint |-> << "unsatisfiable" >>]

(* Factory inputs *)

Qty(name, qty) == [name |-> name, qty |-> qty]

\* the chain iron_ore -> iron_plate -> green_circuit; a is the number of
\* plates one circuit takes
ChainRecipes(a) ==
    << [name |-> "iron_plate", machine |-> "chemical",
        in |-> << Qty("iron_ore", 1) >>, out |-> << Qty("iron_plate", 1) >>],
       [name |-> "green_circuit", machine |-> "assembler_1",
        in |-> << Qty("iron_plate", a) >>, out |-> << Qty("green_circuit", 1) >> ] >>

\* machines and modules of a generated input: no modules; productivity and
\* speed modules on the assembler; an assembler that cannot run and a speed
\* module on the chemical plant
Tunings ==
    { [machines |-> << [name |-> "assembler_1", crafts_per_min |-> 1],
                       [name |-> "chemical", crafts_per_min |-> 1] >>,
       modules |-> << >>],
      [machines |-> << [name |-> "assembler_1", crafts_per_min |-> 1],
                       [name |-> "chemical", crafts_per_min |-> 1] >>,
       modules |-> << [name |-> "assembler_1", prod |-> 1, speed |-> 1] >>],
      [machines |-> << [name |-> "assembler_1", crafts_per_min |-> 0],
                       [name |-> "chemical", crafts_per_min |-> 1] >>,
       modules |-> << [name |-> "chemical", speed |-> 1] >>] }

RawChoices == {<< >>} \cup {<< [name |-> "iron_ore", cap |-> c] >> : c \in 0..MaxRaw}

MachineCapChoices ==
    {<< >>} \cup {<< [name |-> m, cap |-> c] >> : m \in {"assembler_1", "chemical"}, c \in 0..MaxMachines}

TargetChoices ==
    [item : {"green_circuit", "iron_plate", "iron_ore", "ghost"}, rate_per_min : 0..MaxRate]

MkFactory(a, tu, raw, mm, target) ==
    [machines |-> tu.machines,
     recipes |-> ChainRecipes(a),
     modules |-> tu.modules,
     raw_supply_per_min |-> raw,
     max_machines |-> mm,
     target |-> target]

\* test_simple_green with small numbers: two smelting recipes, one assembler
\* recipe, caps that just allow the requested rate
FactoryA ==
    [machines |-> << [name |-> "assembler_1", crafts_per_min |-> 1],
                     [name |-> "chemical", crafts_per_min |-> 2] >>,
     recipes |-> << [name |-> "iron_plate", machine |-> "chemical",
                     in |-> << Qty("iron_ore", 1) >>, out |-> << Qty("iron_plate", 1) >>],
                    [name |-> "copper_plate", machine |-> "chemical",
                     in |-> << Qty("copper_ore", 1) >>, out |-> << Qty("copper_plate", 1) >>],
                    [name |-> "green_circuit", machine |-> "assembler_1",
                     in |-> << Qty("iron_plate", 1), Qty("copper_plate", 3) >>,
                     out |-> << Qty("green_circuit", 1) >>] >>,
     modules |-> << >>,
     raw_supply_per_min |-> << [name |-> "iron_ore", cap |-> 3], [name |-> "copper_ore", cap |-> 6] >>,
     max_machines |-> << [name |-> "assembler_1", cap |-> 3], [name |-> "chemical", cap |-> 4] >>,
     target |-> [item |-> "green_circuit", rate_per_min |-> 2]]

\* Factory A with iron_ore capped below what the rate needs
FactoryB ==
    [FactoryA EXCEPT !.raw_supply_per_min =
        << [name |-> "iron_ore", cap |-> 1], [name |-> "copper_ore", cap |-> 6] >>]

\* Factory A with max_machines[assembler_1] below what the rate needs
FactoryC ==
    [FactoryA EXCEPT !.max_machines =
        << [name |-> "assembler_1", cap |-> 1], [name |-> "chemical", cap |-> 4] >>]

FactorySamples == {FactoryA, FactoryB, FactoryC}

\* d with one raw cap or one machine cap made larger
Raised(d) ==
    {[d EXCEPT !.raw_supply_per_min[i].cap = c] :
        i \in 1..Len(d.raw_supply_per_min), c \in 0..MaxRaw} \cup
    {[d EXCEPT !.max_machines[i].cap = c] :
        i \in 1..Len(d.max_machines), c \in 0..MaxMachines}

LargerCap(d, e) ==
    \/ \E i \in 1..Len(d.raw_supply_per_min) :
          e.raw_supply_per_min[i].cap > d.raw_supply_per_min[i].cap
    \/ \E i \in 1..Len(d.max_machines) :
          e.max_machines[i].cap > d.max_machines[i].cap

-----------------------------------------------------------------------------
(* State *)

VARIABLES
    data,           \* the input document of this call of solve_belts
    pc,             \* where solve_belts is
    solver,         \* which MaxFlowSolver is in use: "none", "lb" or "main"
    graph,          \* solver.graph
    level,          \* max_flow: level of the current phase
    iter_pos,       \* max_flow: iter_pos of the current phase
    total_flow,     \* max_flow: total_flow
    total_demand,   \* solve_belts: total_demand
    result,         \* the returned document
    graph0,         \* solver.graph as it was when max_flow was called
    fdata,          \* the input document of this call of build_and_solve
    fpc,            \* where build_and_solve is
    lp1,            \* what solver.Solve() returned
    lp2,            \* what solver2.Solve() returned
    fresult,        \* the document build_and_solve returned
    prev            \* the input and the document of the run before this one

\* the state of solve_belts and the state of build_and_solve
bvars == << data, pc, solver, graph, level, iter_pos, total_flow, total_demand, result, graph0 >>
fvars == << fdata, fpc, lp1, lp2, fresult, prev >>

vars == << bvars, fvars >>

NoResult == [status |-> "none"]

\* source and sink of the max_flow call in progress
FlowSource == IF solver = "lb" THEN super_source ELSE virtual_source
FlowSink == IF solver = "lb" THEN super_sink ELSE sink_node(data)

\* build_and_solve is not running
FactoryIdle ==
    /\ fdata = FactoryA
    /\ fpc = "off"
    /\ lp1 = [status |-> "none"]
    /\ lp2 = [status |-> "none"]
    /\ fresult = NoResult
    /\ prev = [status |-> "none"]

\* solve_belts is not running
BeltsIdle ==
    /\ data = BeltsC
    /\ pc = "off"
    /\ solver = "none"
    /\ graph = EmptyGraph
    /\ level = << >>
    /\ iter_pos = << >>
    /\ total_flow = 0
    /\ total_demand = 0
    /\ result = NoResult
    /\ graph0 = EmptyGraph

Init ==
    /\ \/ data \in Samples
       \/ \E sh \in Shapes, k \in 0..MaxSupply :
            \E nc \in CapChoices(sh), at \in AttrChoices(sh) : data = MkInput(sh, at, k, nc)
    /\ pc = "start"
    /\ solver = "none"
    /\ graph = EmptyGraph
    /\ level = << >>
    /\ iter_pos = << >>
    /\ total_flow = 0
    /\ total_demand = 0
    /\ result = NoResult
    /\ graph0 = EmptyGraph
    /\ FactoryIdle

\* the nodes the loop over all_nodes adds an edge for
Demanding(d) == {n \in all_nodes(d) : GtTOL(imbalance(d)[n])}
Supplying(d) == {n \in all_nodes(d) : LtNegTOL(imbalance(d)[n])}

\* Steps 1 to 3 up to "if total_demand > TOL": the lower-bound graph is built.
\* The loop over the set all_nodes visits the nodes in an order Python does not
\* fix.  Only the order among the nodes it gives a super_source edge shows in
\* the graph (the keys of graph[super_source]); every super_sink edge is the
\* first key of its own dict.
LbBuild ==
    /\ pc = "start"
    /\ \E ord \in SetOrders(Demanding(data)) :
         LET rest == CHOOSE s \in SetOrders(Supplying(data)) : TRUE
             lb == LbGraph(data, ord \o rest)
         IN /\ graph' = lb.g
            /\ total_demand' = lb.total_demand
            /\ pc' = IF GtTOL(lb.total_demand) THEN "bfs" ELSE "main_build"
    /\ solver' = "lb"
    /\ total_flow' = 0
    /\ graph0' = graph'
    /\ UNCHANGED << data, level, iter_pos, result, fvars >>

\* max_flow: level = self.bfs(source, sink); if sink not in level: break; iter_pos = {}
Bfs ==
    /\ pc = "bfs"
    /\ level' = bfs(graph, FlowSource, FlowSink)
    /\ iter_pos' = << >>
    /\ pc' = IF FlowSink \in DOMAIN level' THEN "dfs" ELSE "flow_done"
    /\ UNCHANGED << data, solver, graph, total_flow, total_demand, result, graph0, fvars >>

\* max_flow: pushed = self.dfs(source, sink, inf, level, iter_pos);
\* if pushed < TOL: break; total_flow += pushed
Dfs ==
    /\ pc = "dfs"
    /\ LET r == dfs(graph, FlowSource, FlowSink, Inf, level, iter_pos)
       IN /\ graph' = r.g
          /\ iter_pos' = r.iter_pos
          /\ IF LtTOL(r.pushed)
             THEN pc' = "bfs" /\ total_flow' = total_flow
             ELSE pc' = "dfs" /\ total_flow' = FAdd(total_flow, r.pushed)
    /\ UNCHANGED << data, solver, level, total_demand, result, graph0, fvars >>

\* if abs(lb_flow - total_demand) > TOL: return the certificate
LbCheck ==
    /\ pc = "flow_done"
    /\ solver = "lb"
    /\ IF DiffersTOL(total_flow, total_demand)
       THEN /\ result' = LbInfeasible(data, graph, total_demand, total_flow)
            /\ pc' = "done"
       ELSE /\ result' = result
            /\ pc' = "main_build"
    /\ UNCHANGED << data, solver, graph, level, iter_pos, total_flow, total_demand, graph0, fvars >>

\* Step 4 up to the call of main_solver.max_flow
MainBuild ==
    /\ pc = "main_build"
    /\ solver' = "main"
    /\ graph' = MainGraph(data).g
    /\ total_flow' = 0
    /\ level' = << >>
    /\ iter_pos' = << >>
    /\ pc' = "bfs"
    /\ graph0' = graph'
    /\ UNCHANGED << data, total_demand, result, fvars >>

\* the check of max_flow_value against total_supply_amount, then step 5
MainCheck ==
    /\ pc = "flow_done"
    /\ solver = "main"
    /\ result' = IF DiffersTOL(total_flow, total_supply_amount(data))
                 THEN MainInfeasible(data, graph, total_flow)
                 ELSE OkResult(data, graph, total_flow)
    /\ pc' = "done"
    /\ UNCHANGED << data, solver, graph, level, iter_pos, total_flow, total_demand, graph0, fvars >>

Next == LbBuild \/ Bfs \/ Dfs \/ LbCheck \/ MainBuild \/ MainCheck

Spec == Init /\ [][Next]_vars

-----------------------------------------------------------------------------
(* The calls of build_and_solve *)

NoCall == [status |-> "none"]

FInit ==
    /\ \/ fdata \in FactorySamples
       \/ \E a \in PlatesPerCircuit, tu \in Tunings, raw \in RawChoices :
            \E mm \in MachineCapChoices, target \in TargetChoices :
               fdata = MkFactory(a, tu, raw, mm, target)
    /\ fpc = "start"
    /\ lp1 = NoCall
    /\ lp2 = NoCall
    /\ fresult = NoResult
    /\ prev = NoCall
    /\ BeltsIdle

\* status = solver.Solve()
Primary ==
    /\ fpc = "start"
    /\ lp1' \in SolvePrimary(fdata)
    /\ fpc' = "primary"
    /\ UNCHANGED << fdata, lp2, fresult, prev, bvars >>

\* status is OPTIMAL or FEASIBLE: the "ok" document
ReturnOk ==
    /\ fpc = "primary"
    /\ Solved(lp1)
    /\ fresult' = FactoryOk(fdata, lp1)
    /\ fpc' = "done"
    /\ UNCHANGED << fdata, lp1, lp2, prev, bvars >>

\* any other status: stat2 = solver2.Solve()
Diagnostic ==
    /\ fpc = "primary"
    /\ ~Solved(lp1)
    /\ lp2' \in SolveDiagnostic(fdata)
    /\ fpc' = "diagnostic"
    /\ UNCHANGED << fdata, lp1, fresult, prev, bvars >>

\* stat2 is OPTIMAL or FEASIBLE: max_target and the bottleneck hints
ReturnInfeasible ==
    /\ fpc = "diagnostic"
    /\ Solved(lp2)
    /\ fresult' = FactoryInfeasible(fdata, lp2)
    /\ fpc' = "done"
    /\ UNCHANGED << fdata, lp1, lp2, prev, bvars >>

\* any other stat2
ReturnUnsatisfiable ==
    /\ fpc = "diagnostic"
    /\ ~Solved(lp2)
    /\ fresult' = FactoryUnsatisfiable
    /\ fpc' = "done"
    /\ UNCHANGED << fdata, lp1, lp2, prev, bvars >>

\* main() is run once more, on the input with one cap made larger; prev keeps
\* the input and the document of the first run
CallAgain ==
    /\ fpc = "done"
    /\ prev = NoCall
    /\ \E e \in Raised(fdata) : LargerCap(fdata, e) /\ fdata' = e
    /\ prev' = [status |-> "called", data |-> fdata, result |-> fresult]
    /\ fpc' = "start"
    /\ lp1' = NoCall
    /\ lp2' = NoCall
    /\ fresult' = NoResult
    /\ UNCHANGED bvars

FNext == Primary \/ ReturnOk \/ Diagnostic \/ ReturnInfeasible \/ ReturnUnsatisfiable \/ CallAgain

FactorySpec == FInit /\ [][FNext]_vars

-----------------------------------------------------------------------------
(* What the claims speak of *)

Done == pc = "done"

IsOk == Done /\ result.status = "ok"

IsInfeasible == Done /\ result.status = "infeasible"

RECURSIVE SumSeq(_)
SumSeq(s) == IF s = << >> THEN 0 ELSE FAdd(Head(s), SumSeq(Tail(s)))

TotalSupply(d) == SumSeq([i \in 1..Len(d.sources) |-> d.sources[i].supply])

\* all edge endpoints are nodes and 0 <= lo <= hi on every edge
WellFormed(d) ==
    \A i \in 1..Len(d.edges) :
        /\ d.edges[i].from \in Range(d.nodes)
        /\ d.edges[i].to \in Range(d.nodes)
        /\ 0 <= EdgeLo(d.edges[i])
        /\ EdgeLo(d.edges[i]) <= EdgeHi(d.edges[i])

\* the nodes that are neither a source nor the sink
Inner(d) == {n \in Range(d.nodes) : n # d.sink /\ n \notin SourceNames(d)}

\* sums over a list fl of reported flows
InFlow(fl, v) == SumSeq([k \in 1..Len(fl) |-> IF fl[k].to = v THEN fl[k].flow ELSE 0])
OutFlow(fl, v) == SumSeq([k \in 1..Len(fl) |-> IF fl[k].from = v THEN fl[k].flow ELSE 0])

\* the flow reported for input edge i, 0 when the list has no entry for it
Reported(fl, i) ==
    IF \E k \in 1..Len(fl) : fl[k].edge = i
    THEN fl[CHOOSE k \in 1..Len(fl) : fl[k].edge = i].flow
    ELSE 0

\* f, a flow value per input edge, meets every constraint of the input d and
\* delivers the whole supply to the sink
FlowList(d, f) ==
    [i \in 1..Len(d.edges) |-> [from |-> d.edges[i].from, to |-> d.edges[i].to, flow |-> f[i]]]

IsFeasibleFlow(d, f) ==
    LET fl == FlowList(d, f)
    IN /\ \A i \in 1..Len(d.edges) : EdgeLo(d.edges[i]) <= f[i] /\ f[i] <= EdgeHi(d.edges[i])
       /\ \A v \in Inner(d) : InFlow(fl, v) = OutFlow(fl, v)
       /\ \A v \in Inner(d) \cap DOMAIN d.node_caps : InFlow(fl, v) <= d.node_caps[v]
       /\ \A i \in 1..Len(d.sources) :
            OutFlow(fl, d.sources[i].name) - InFlow(fl, d.sources[i].name)
                = d.sources[i].supply
       /\ InFlow(fl, d.sink) - OutFlow(fl, d.sink) = TotalSupply(d)

\* the flows looked at: the known one of Belts A, and for a generated input
\* every assignment of 0..MaxHi+MaxLo to its edges
CandidateFlows(d) ==
    IF d = BeltsA THEN {<< 120, 120, 120 >>}
    ELSE IF d \in Samples THEN {}
    ELSE [1..Len(d.edges) -> 0..(MaxHi + MaxLo)]

HasFeasibleFlow(d) == \E f \in CandidateFlows(d) : IsFeasibleFlow(d, f)

\* The most that can reach the sink from the sources, each limited to its
\* supply, under the upper bounds and the node caps: the least capacity of a
\* cut between a source of supplies and the sink, over the network with one
\* vertex per node and two (in, out) per capped inner node.
CutEdges(d) ==
    LET capped == Inner(d) \cap DOMAIN d.node_caps
        tail(n) == IF n \in capped THEN << n, "out" >> ELSE << n, "both" >>
        head(n) == IF n \in capped THEN << n, "in" >> ELSE << n, "both" >>
        cs == SelectSeq(d.nodes, LAMBDA n : n \in capped)
    IN [i \in 1..Len(d.edges) |->
            [u |-> tail(d.edges[i].from), v |-> head(d.edges[i].to), cap |-> EdgeHi(d.edges[i])]]
       \o [i \in 1..Len(cs) |->
            [u |-> << cs[i], "in" >>, v |-> << cs[i], "out" >>, cap |-> d.node_caps[cs[i]]]]
       \o [i \in 1..Len(d.sources) |->
            [u |-> << "", "supply" >>, v |-> << d.sources[i].name, "both" >>,
             cap |-> d.sources[i].supply]]

CutCapacity(ce, S) ==
    SumSeq([i \in 1..Len(ce) |-> IF ce[i].u \in S /\ ce[i].v \notin S THEN ce[i].cap ELSE 0])

MaxDeliverable(d) ==
    LET ce == CutEdges(d)
        root == << "", "supply" >>
        sinkv == << d.sink, "both" >>
        others == ({ce[i].u : i \in 1..Len(ce)} \cup {ce[i].v : i \in 1..Len(ce)})
                      \ {root, sinkv}
        caps == {CutCapacity(ce, S \cup {root}) : S \in SUBSET others}
    IN CHOOSE c \in caps : \A x \in caps : c <= x

-----------------------------------------------------------------------------
(* The claims *)

\* C1: a well-formed input that admits a flow meeting every bound, every node
\* cap, conservation at the inner nodes and delivering the whole supply is
\* answered "ok" with max_flow_per_min equal to the total supply.
C1_FeasibleIsOk ==
    (Done /\ WellFormed(data) /\ HasFeasibleFlow(data))
        => (result.status = "ok" /\ result.max_flow_per_min = TotalSupply(data))

\* C2: in an "ok" result the reported inflow of every inner node equals its
\* reported outflow.  Stated for the well-formed inputs, so that no edge with
\* hi < lo has a part in a violation.
C2_Conservation ==
    (IsOk /\ WellFormed(data)) => \A v \in Inner(data) : InFlow(result.flows, v) = OutFlow(result.flows, v)

\* C3: in an "ok" result the flow reported for every input edge lies between
\* its lo and its hi.
C3_WithinBounds ==
    IsOk => \A i \in 1..Len(data.edges) :
                /\ EdgeLo(data.edges[i]) <= Reported(result.flows, i)
                /\ Reported(result.flows, i) <= EdgeHi(data.edges[i])

\* C4: in an "ok" result the reported inflow of every capped inner node is at
\* most its cap.  Stated for the well-formed inputs.
C4_NodeCaps ==
    (IsOk /\ WellFormed(data)) => \A v \in Inner(data) \cap DOMAIN data.node_caps :
                InFlow(result.flows, v) <= data.node_caps[v]

\* C5: in an "ok" result max_flow_per_min is the reported net inflow of the
\* sink.  Stated for the well-formed inputs.
C5_SinkInflow ==
    (IsOk /\ WellFormed(data)) => result.max_flow_per_min
                = FSub(InFlow(result.flows, data.sink), OutFlow(result.flows, data.sink))

\* C6: a well-formed input whose sources cannot deliver the total supply under
\* the upper bounds and node caps is answered "infeasible".
C6_ShortfallIsInfeasible ==
    (Done /\ WellFormed(data) /\ MaxDeliverable(data) < TotalSupply(data))
        => result.status = "infeasible"

C6_Witness ==
    /\ IsInfeasible
    /\ solver = "main"
    /\ WellFormed(data)
    /\ MaxDeliverable(data) < TotalSupply(data)

TightNames(r) ==
    {<< r.deficit.tight_edges[k].from, r.deficit.tight_edges[k].to >>
        : k \in 1..Len(r.deficit.tight_edges)}

\* C7: Belts B is answered "infeasible" with s1, a and b but not sink in
\* cut_reachable, and a tight edge from b to sink.
C7_BeltsB ==
    (Done /\ data = BeltsB)
        => /\ result.status = "infeasible"
           /\ {"s1", "a", "b"} \subseteq Range(result.cut_reachable)
           /\ "sink" \notin Range(result.cut_reachable)
           /\ << "b", "sink" >> \in TightNames(result)

\* C8: every tight_edges entry of an "infeasible" result is an input edge under
\* its original names, its tail in cut_reachable and its head not.  Stated for
\* the well-formed inputs.
C8_TightEdges ==
    (IsInfeasible /\ WellFormed(data)) =>
        \A t \in TightNames(result) :
            /\ \E i \in 1..Len(data.edges) :
                   data.edges[i].from = t[1] /\ data.edges[i].to = t[2]
            /\ t[1] \in Range(result.cut_reachable)
            /\ t[2] \notin Range(result.cut_reachable)

\* C9: an input with an edge whose hi is below its lo is answered
\* "infeasible" with that edge named among the tight edges.
C9_BadBounds ==
    (Done /\ ~WellFormed(data))
        => /\ result.status = "infeasible"
           /\ \E i \in 1..Len(data.edges) :
                  /\ EdgeHi(data.edges[i]) < EdgeLo(data.edges[i])
                  /\ << data.edges[i].from, data.edges[i].to >> \in TightNames(result)

\* C10: Belts C is answered "infeasible" by the lower-bound phase; the main
\* solver is never built or run for it.
C10_BeltsC ==
    data = BeltsC => (solver # "main" /\ pc # "main_build"
                      /\ (Done => result.status = "infeasible"))

C10_Witness == data = BeltsC /\ IsInfeasible /\ solver = "lb"

\* C3 on the well-formed inputs alone: there every reported flow is within
\* the bounds of its edge, so the violations of C3 all come from hi < lo.
C3_WithinBoundsWellFormed ==
    (IsOk /\ WellFormed(data)) =>
        \A i \in 1..Len(data.edges) :
            /\ EdgeLo(data.edges[i]) <= Reported(result.flows, i)
            /\ Reported(result.flows, i) <= EdgeHi(data.edges[i])

-----------------------------------------------------------------------------
(* What the factory claims speak of *)

FDone == fpc = "done"

FIsOk == FDone /\ fresult.status = "ok"

FIsInfeasible == FDone /\ fresult.status = "infeasible"

\* net production of the target item under the crafts x: the sum over the
\* recipes of (out_r[target] * (1 + prod_r) - in_r[target]) * x_r
NetProduction(d, x) == Balance(d, d.target.item, x)

(* C11: whenever build_and_solve returns "ok", the net production of the     *)
(* target item under the reported per_recipe_crafts_per_min equals the       *)
(* requested rate_per_min, whatever the target item is (a key of a recipe's  *)
(* in/out or not).                                                            *)
C11_TargetMet ==
    FIsOk =>
        NetProduction(fdata, fresult.per_recipe_crafts_per_min)
            = fdata.target.rate_per_min * Den

\* the steps of one call of build_and_solve
CallStep == Primary \/ ReturnOk \/ Diagnostic \/ ReturnInfeasible \/ ReturnUnsatisfiable

\* ENABLED CallStep, written out: the guard of each step, and an outcome of
\* the oracle where the step asks for one
CallStepEnabled ==
    \/ fpc = "start" /\ SolvePrimary(fdata) # {}
    \/ fpc = "primary" /\ Solved(lp1)
    \/ fpc = "primary" /\ ~Solved(lp1) /\ SolveDiagnostic(fdata) # {}
    \/ fpc = "diagnostic"

\* the largest target rate a point of the diagnostic program reaches
IsMaxTarget(d, t) ==
    LET F == DiagnosticFeasible(d)
    IN /\ \E s \in F : s.target_var = t
       /\ \A s \in F : s.target_var <= t

(* C12: build_and_solve always ends with exactly one document, "ok" or      *)
(* "infeasible": a call that has not returned can take a step and has no     *)
(* document yet; the document is "ok" exactly when the primary program was   *)
(* reported optimal or feasible; otherwise the diagnostic program was        *)
(* solved and the document is "infeasible" with max_feasible_target_per_min  *)
(* the maximum T* of that program, or with 0 and ["unsatisfiable"] when the  *)
(* oracle did not solve the second program either.                           *)
C12_OneDocument ==
    /\ ~FDone => (fresult = NoResult /\ CallStepEnabled)
    /\ FDone =>
         /\ fresult.status \in {"ok", "infeasible"}
         /\ fresult.status = "ok" <=> Solved(lp1)
         /\ ~Solved(lp1) =>
              /\ lp2.status # "none"
              /\ IF Solved(lp2)
                 THEN IsMaxTarget(fdata, fresult.max_feasible_target_per_min)
                 ELSE /\ fresult.max_feasible_target_per_min = 0
                      /\ fresult.bottleneck_hint = << "unsatisfiable" >>

\* an infeasible document that reports a positive maximum of a solved
\* diagnostic program
C12_Witness ==
    /\ FIsInfeasible
    /\ ~Solved(lp1)
    /\ Solved(lp2)
    /\ fresult.max_feasible_target_per_min > 0

\* the machine classes and raw items at their cap at the diagnostic optimum
CappedMachinesAtCap(d, x) ==
    {m \in EntryNames(d.max_machines) \cap EntryNames(d.machines) :
        UsageNum(d, m, x) = Entry(d.max_machines, m).cap * UsageDen(d, m)}

RawItemsAtCap(d, c) == {it \in DOMAIN c : c[it] = RawCap(d, it) * Den}

(* C13: in an "infeasible" document of a solved diagnostic program,          *)
(* bottleneck_hint is exactly "<machine> cap" for every capped machine class *)
(* whose usage is at its cap at the diagnostic optimum, followed by          *)
(* "<item> supply" for every raw item whose consumption is at its cap;       *)
(* Factory B has "iron_ore supply" and Factory C has "assembler_1 cap".      *)
C13_BottleneckHint ==
    (FIsInfeasible /\ Solved(lp2)) =>
        LET h == fresult.bottleneck_hint
            ms == CappedMachinesAtCap(fdata, lp2.x)
            rs == RawItemsAtCap(fdata, lp2.consumption)
        IN /\ Len(h) = Cardinality(ms) + Cardinality(rs)
           /\ {h[i] : i \in 1..Cardinality(ms)} = {m \o " cap" : m \in ms}
           /\ {h[i] : i \in (Cardinality(ms) + 1)..Len(h)} = {it \o " supply" : it \in rs}
           /\ fdata = FactoryB => \E i \in 1..Len(h) : h[i] = "iron_ore supply"
           /\ fdata = FactoryC => \E i \in 1..Len(h) : h[i] = "assembler_1 cap"

\* a hint that names a machine cap and a raw supply
C13_Witness ==
    /\ FIsInfeasible
    /\ Solved(lp2)
    /\ Len(fresult.bottleneck_hint) = 2
    /\ fresult.bottleneck_hint[1] = "assembler_1 cap"
    /\ fresult.bottleneck_hint[2] = "iron_ore supply"

(* C14: of two runs whose inputs differ only in one raw cap or one machine   *)
(* cap, larger in the second, and that both return "infeasible", the second  *)
(* reports a max_feasible_target_per_min that is not smaller.                *)
C14_Monotone ==
    (FIsInfeasible /\ prev.status = "called" /\ prev.result.status = "infeasible") =>
        fresult.max_feasible_target_per_min >= prev.result.max_feasible_target_per_min

\* a second run with a larger cap that reports a larger maximum
C14_Witness ==
    /\ FIsInfeasible
    /\ prev.status = "called"
    /\ prev.result.status = "infeasible"
    /\ fresult.max_feasible_target_per_min > prev.result.max_feasible_target_per_min

-----------------------------------------------------------------------------
(* MaxFlowSolver.max_flow against the minimum cut *)

\* max_flow has returned and its caller has not yet looked at the value
FlowReturned == pc = "flow_done"

\* the vertices that g has an entry from or to
GraphVertices(g) ==
    {u \in Vertices : g[u] # << >>} \cup UNION {Range(Keys(g, u)) : u \in Vertices}

\* the capacity of g that leaves the vertex set S
CutValue(g, S) ==
    LET crossing == {p \in S \X (GraphVertices(g) \ S) : HasKey(g, p[1], p[2])}
    IN SumFn([p \in crossing |-> Get(g, p[1], p[2])], crossing)

\* the least capacity of a cut of g with s on one side and t on the other
MinCutValue(g, s, t) ==
    LET cuts == {CutValue(g, S \cup {s}) : S \in SUBSET (GraphVertices(g) \ {s, t})}
    IN CHOOSE c \in cuts : \A x \in cuts : c <= x

(* C15: when max_flow returns, the value it returns is the capacity of a     *)
(* minimum cut between source and sink of the graph add_edge built (the      *)
(* value of a maximum flow), and the sink is not reachable from the source   *)
(* over entries with residual > TOL.                                         *)
C15_MaxFlow ==
    FlowReturned =>
        /\ total_flow = MinCutValue(graph0, FlowSource, FlowSink)
        /\ FlowSink \notin get_reachable(graph, FlowSource)

\* max_flow has returned a positive value that is less than the capacity
\* leaving the source: a cut further down limits the flow
C15_Witness ==
    /\ FlowReturned
    /\ total_flow > 0
    /\ total_flow < CutValue(graph0, {FlowSource})

\* max_flow is running
InMaxFlow == pc \in {"bfs", "dfs"}

\* the first call of dfs in a phase: the BFS has reached the sink and
\* iter_pos is still the empty dict
PhaseStart == pc = "dfs" /\ iter_pos = << >>

\* the first dfs of a phase pushes an amount > TOL: total_flow grows and the
\* inner loop goes on
PhaseProgress == PhaseStart => (pc' = "dfs" /\ GtTOL(FSub(total_flow', total_flow)))

\* the capacity that leaves the source of the call: no flow exceeds it
SourceCapacity == SumSeq([i \in 1..Len(graph0[FlowSource]) |-> graph0[FlowSource][i].c])

\* A measure of the work max_flow has left: what the flow still lacks to the
\* capacity leaving the source, three steps for each unit, and the place in
\* the phase (the BFS, the first dfs of a phase, a later dfs)
Remaining ==
    IF ~InMaxFlow THEN 0
    ELSE 3 * (SourceCapacity - total_flow)
            + (IF pc = "bfs" THEN 1 ELSE IF PhaseStart THEN 0 ELSE 2)

(* C16: max_flow terminates: in every phase whose BFS reaches the sink the   *)
(* first dfs pushes an amount > TOL, and every step of max_flow lowers a     *)
(* measure that is a natural number, so that the loop comes to the BFS that  *)
(* does not reach the sink and max_flow returns.                             *)
C16_Terminates ==
    [][InMaxFlow => (PhaseProgress /\ Remaining >= 0 /\ Remaining' >= 0 /\ Remaining' < Remaining)]_vars

\* a phase that is not the first of its call starts: an earlier phase has
\* pushed flow and the BFS has reached the sink again
C16_Witness == PhaseStart /\ total_flow > 0

-----------------------------------------------------------------------------
(* Parallel edges *)

\* the input edges with the same (from, to) as input edge i
ParallelTo(d, i) ==
    {j \in 1..Len(d.edges) : d.edges[j].from = d.edges[i].from /\ d.edges[j].to = d.edges[i].to}

\* the flow the main solver has routed from u to v: what the residual of
\* u -> v has lost since the graph was built
Routed(u, v) == FSub(Get(graph0, u, v), Get(graph, u, v))

(* C17: an input edge that has a parallel edge (same from and to) has a      *)
(* residual entry of its own in the main graph, with the capacity hi - lo of *)
(* that edge alone, and in an "ok" result the flows reported for the edges   *)
(* of one (from, to) pair add up to their lower bounds plus the flow routed  *)
(* between the two vertices.                                                 *)
C17_ParallelEdges ==
    \A i \in 1..Len(data.edges) :
        LET P == ParallelTo(data, i)
            e == MappedEdge(data, data.edges[i])
        IN (WellFormed(data) /\ Cardinality(P) > 1 /\ solver = "main") =>
              /\ GtTOL(FSub(e.hi, e.lo)) => Get(graph0, e.from, e.to) = FSub(e.hi, e.lo)
              /\ IsOk =>
                    SumFn([j \in P |-> Reported(result.flows, j)], P)
                        = FAdd(SumFn([j \in P |-> EdgeLo(data.edges[j])], P), Routed(e.from, e.to))

-----------------------------------------------------------------------------
(* The deficit of an infeasible result *)

\* the vertices reachable from the BFS start in the final residual graph
FinalReachable == get_reachable(graph, FlowSource)

\* the split nodes whose in -> out entry has nothing left and whose in
\* vertex is reachable
SaturatedSplitNodes ==
    {n \in node_split_map(data) :
        /\ ~GtTOL(Get(graph, NodeIn(n), NodeOut(n)))
        /\ NodeIn(n) \in FinalReachable}

(* C18: in an "infeasible" result deficit.tight_nodes holds exactly the      *)
(* split nodes whose in -> out capacity entry has zero remaining residual    *)
(* and whose in vertex is reachable in the final residual graph.             *)
C18_TightNodes ==
    IsInfeasible => Range(result.deficit.tight_nodes) = SaturatedSplitNodes

\* input edge i crosses the final cut with nothing left: its tail vertex is
\* reachable, its head vertex is not, and its forward residual is <= TOL
CrossesTight(i) ==
    LET e == MappedEdge(data, data.edges[i])
    IN /\ e.from \in FinalReachable
       /\ e.to \notin FinalReachable
       /\ ~GtTOL(Get(graph, e.from, e.to))

\* the entries of tight_edges that name input edge i, by its input names or
\* by the names of its vertices in the transformed graph
EntriesFor(te, i) ==
    LET e == MappedEdge(data, data.edges[i])
    IN {k \in 1..Len(te) :
          /\ te[k].from \in {e.from, e.original_from}
          /\ te[k].to \in {e.to, e.original_to}}

(* C19: in an "infeasible" result tight_edges leaves out no input edge whose *)
(* tail is reachable in the final residual graph, whose head is not and      *)
(* whose forward residual is <= TOL: of the edges of one (from, to) pair     *)
(* that cross the cut so, tight_edges has an entry for each.                 *)
C19_AllTightEdges ==
    IsInfeasible =>
        \A i \in 1..Len(data.edges) :
            CrossesTight(i) =>
                Cardinality(EntriesFor(result.deficit.tight_edges, i))
                    >= Cardinality({j \in ParallelTo(data, i) : CrossesTight(j)})

-----------------------------------------------------------------------------
(* The residual graph during max_flow *)

\* residual(u, v) + residual(v, u) in the graph g
PairSum(g, u, v) == FAdd(Get(g, u, v), Get(g, v, u))

(* C20: in every state every residual is >= 0, and for every two vertices    *)
(* the residuals of the two directions add up to what they added up to when  *)
(* max_flow was called: a push takes from one direction what it gives to the *)
(* other.  (Two vertices with no entry in either graph add up to 0 in both;  *)
(* the formula looks at the entries.)                                        *)
C20_Residuals ==
    \A u \in Vertices :
        /\ \A i \in 1..Len(graph[u]) :
              /\ graph[u][i].c # NaN
              /\ graph[u][i].c >= 0
              /\ PairSum(graph, u, graph[u][i].v) = PairSum(graph0, u, graph[u][i].v)
        /\ \A i \in 1..Len(graph0[u]) :
              PairSum(graph, u, graph0[u][i].v) = PairSum(graph0, u, graph0[u][i].v)

\* max_flow is running and has pushed part of an edge's capacity: the edge
\* and its reverse both have residual left, and the reverse had none
C20_Witness ==
    /\ InMaxFlow
    /\ \E u \in Vertices : \E v \in Vertices :
          /\ Get(graph0, v, u) = 0
          /\ Get(graph, v, u) > 0
          /\ Get(graph, u, v) > 0
          /\ Get(graph, u, v) < Get(graph0, u, v)

-----------------------------------------------------------------------------
(* The cursors of a blocking-flow phase *)

\* iter_pos[u] as the next dfs finds it: a vertex not yet in the dict starts at 0
Cursor(ip, u) == IF u \in DOMAIN ip THEN ip[u] ELSE 0

\* u -> v goes from a level to the next and has residual > TOL in g
LevelEdge(g, lv, u, v) ==
    /\ u \in DOMAIN lv
    /\ v \in DOMAIN lv
    /\ lv[v] = lv[u] + 1
    /\ HasKey(g, u, v)
    /\ Get(g, u, v) # NaN
    /\ Get(g, u, v) > 0

RECURSIVE CanPush(_, _, _, _)
\* something can be pushed from v to the sink over level edges of g
CanPush(g, lv, v, t) ==
    \/ v = t
    \/ \E i \in 1..Len(g[v]) : LevelEdge(g, lv, v, g[v][i].v) /\ CanPush(g, lv, g[v][i].v, t)

\* no cursor goes back in this step
CursorsKept ==
    \A u \in DOMAIN iter_pos : u \in DOMAIN iter_pos' /\ iter_pos'[u] >= iter_pos[u]

\* every edge a cursor has gone past in this step is exhausted: it is not a
\* level edge with residual, or nothing can be pushed from its head
SkippedExhausted ==
    \A u \in DOMAIN iter_pos' :
        \A k \in (Cursor(iter_pos, u) + 1)..iter_pos'[u] :
            /\ k <= Len(graph[u])
            /\ \/ ~LevelEdge(graph, level, u, graph[u][k].v)
               \/ ~CanPush(graph, level, graph[u][k].v, FlowSink)

\* every entry this step has changed belongs to an edge from a level to the
\* next: the edge lost residual, or its reverse gained it
PathInLevels ==
    \A u \in Vertices : \A v \in Vertices :
        Get(graph', v, u) # Get(graph, v, u) \/ Get(graph', u, v) # Get(graph, u, v) =>
            \/ (u \in DOMAIN level /\ LevelGet(level, v) = level[u] + 1)
            \/ (v \in DOMAIN level /\ LevelGet(level, u) = level[v] + 1)

(* C21: within a phase no cursor iter_pos[u] decreases; a cursor goes only   *)
(* past an edge that is not level-increasing, has no residual, or through    *)
(* which nothing can be pushed; a push changes only edges from a level to    *)
(* the next; and a new phase starts with the cursors reset.                  *)
C21_Cursors ==
    [][/\ pc = "dfs" => (CursorsKept /\ SkippedExhausted /\ PathInLevels)
       /\ (pc = "bfs" /\ pc' = "dfs") => iter_pos' = << >>]_vars

\* in the middle of a phase a cursor stands past an edge and before another
C21_Witness ==
    /\ pc = "dfs"
    /\ \E u \in DOMAIN iter_pos : iter_pos[u] > 0 /\ iter_pos[u] < Len(graph[u])

-----------------------------------------------------------------------------
(* Edges without "hi" *)

\* input edge i is the only input edge between its two nodes, in either
\* direction
AloneOnPair(d, i) ==
    \A j \in 1..Len(d.edges) :
        j # i => /\ ~(d.edges[j].from = d.edges[i].from /\ d.edges[j].to = d.edges[i].to)
                 /\ ~(d.edges[j].from = d.edges[i].to /\ d.edges[j].to = d.edges[i].from)

\* what the main max-flow has pushed over u -> v: the residual its reverse
\* entry has gained (the forward residual of an infinite capacity does not
\* show it)
PushedOver(u, v) == FSub(Get(graph, v, u), Get(graph0, v, u))

(* C22: in an "ok" result the flow reported for an input edge given without  *)
(* hi is its lo plus the amount the main max-flow routed over it.            *)
C22_DefaultHi ==
    (IsOk /\ WellFormed(data)) =>
        \A i \in 1..Len(data.edges) :
            ("hi" \notin DOMAIN data.edges[i] /\ AloneOnPair(data, i)) =>
                LET e == MappedEdge(data, data.edges[i])
                IN Reported(result.flows, i) = FAdd(e.lo, PushedOver(e.from, e.to))

-----------------------------------------------------------------------------
(* Lower bounds on an acyclic input *)

\* the nodes an edge of d leads to from a node of S
Successors(d, S) == {d.edges[i].to : i \in {j \in 1..Len(d.edges) : d.edges[j].from \in S}}

RECURSIVE ReachedIn(_, _, _)
\* the nodes reached from S over at least one and at most n + 1 edges
ReachedIn(d, S, n) ==
    IF n = 0 THEN Successors(d, S)
    ELSE LET R == ReachedIn(d, S, n - 1) IN R \cup Successors(d, R)

\* no node of d leads back to itself
Acyclic(d) == \A v \in Range(d.nodes) : v \notin ReachedIn(d, {v}, Len(d.nodes))

\* some edge of d has lo > TOL
HasLowerBound(d) == \E i \in 1..Len(d.edges) : GtTOL(EdgeLo(d.edges[i]))

=============================================================================
